---- MODULE Spec2Model ----
(***************************************************************************)
(* Earthy AI backend: the POST /chat relay (completion API) and the POST   *)
(* /lead relay (email API), with the shared helper                         *)
(* buildMessagesFromHistory.                                               *)
(*                                                                         *)
(* The repository holds two revisions of the same server:                  *)
(*   "server"    src/server.js lines 1-215 (lines 217-472 repeat them with *)
(*               another persona string and the same logic)                *)
(*   "part_000"  src/unnamed/part_000                                      *)
(* The revision that runs and the process environment are fixed when the   *)
(* process starts; one request is followed from its arrival to its         *)
(* response, the handler suspended at each await.                          *)
(*                                                                         *)
(* JavaScript strings are TLA+ strings; s[i] is SubSeq(s, i, i).           *)
(***************************************************************************)
EXTENDS Integers, Sequences, FiniteSets, TLC

VARIABLES
  rev,       \* the revision of the server that runs
  env,       \* process.env
  pc,        \* where the handler of the current request stands
  req,       \* the current request
  calls,     \* the outbound calls made for it
  resps,     \* the responses sent for it
  upstream,  \* what the outbound call gave back so far
  log        \* the console.error lines written for it

vars == <<rev, env, pc, req, calls, resps, upstream, log>>

(***************************************************************************)
(* Bounds of the model.                                                    *)
(***************************************************************************)
MaxHist == 2

(***************************************************************************)
(* JavaScript values as they arrive in a JSON body.                        *)
(*   scalar fields: [t, s]   t in undef / null / str / num / obj           *)
(*                           s the string (str) or the digits (num)        *)
(***************************************************************************)
Undef == [t |-> "undef", s |-> ""]
Null == [t |-> "null", s |-> ""]
Str(s) == [t |-> "str", s |-> s]
Num(s) == [t |-> "num", s |-> s]
Obj == [t |-> "obj", s |-> ""]

\* ToBoolean: undefined, null, "" and 0 are falsy.
Truthy(v) ==
  CASE v.t = "str" -> v.s # ""
    [] v.t = "num" -> v.s # "0"
    [] v.t = "obj" -> TRUE
    [] OTHER -> FALSE

\* String(v) and `${v}`.
JsString(v) ==
  CASE v.t = "str" -> v.s
    [] v.t = "num" -> v.s
    [] v.t = "obj" -> "[object Object]"
    [] v.t = "null" -> "null"
    [] OTHER -> "undefined"

Char(s, i) == SubSeq(s, i, i)

WhiteSpace == {" ", "\t", "\n"}

\* String.prototype.trim: strips white space from both ends.
RECURSIVE TrimStart(_)
TrimStart(s) ==
  IF s # "" /\ Char(s, 1) \in WhiteSpace THEN TrimStart(SubSeq(s, 2, Len(s))) ELSE s

RECURSIVE TrimEnd(_)
TrimEnd(s) ==
  IF s # "" /\ Char(s, Len(s)) \in WhiteSpace
  THEN TrimEnd(SubSeq(s, 1, Len(s) - 1))
  ELSE s

Trim(s) == TrimEnd(TrimStart(s))

UpperLetters == "ABCDEFGHIJKLMNOPQRSTUVWXYZ"
LowerLetters == "abcdefghijklmnopqrstuvwxyz"

LowerChar(c) ==
  IF \E i \in 1..Len(UpperLetters) : Char(UpperLetters, i) = c
  THEN Char(LowerLetters, CHOOSE i \in 1..Len(UpperLetters) : Char(UpperLetters, i) = c)
  ELSE c

RECURSIVE ToLower(_)
ToLower(s) == IF s = "" THEN "" ELSE LowerChar(Char(s, 1)) \o ToLower(SubSeq(s, 2, Len(s)))

StartsWithIgnoreCase(s, p) == Len(s) >= Len(p) /\ ToLower(SubSeq(s, 1, Len(p))) = p

\* the prefix test without the i flag: /^https?:\/\//.test(s)
HasHttpPrefix_CaseSensitive(s) ==
  \/ Len(s) >= 7 /\ SubSeq(s, 1, 7) = "http://"
  \/ Len(s) >= 8 /\ SubSeq(s, 1, 8) = "https://"

\* /^https?:\/\//i.test(s)
HasHttpPrefix(s) == StartsWithIgnoreCase(s, "http://") \/ StartsWithIgnoreCase(s, "https://")

\* [^\s@]+ over s[a..b]
IsToken(s, a, b) ==
  /\ a <= b
  /\ \A k \in a..b : Char(s, k) \notin WhiteSpace /\ Char(s, k) # "@"

\* /^[^\s@]+@[^\s@]+\.[^\s@]+$/.test(s)
simpleEmailRegex(s) ==
  \E i \in 1..Len(s), j \in 1..Len(s) :
    /\ i < j
    /\ Char(s, i) = "@"
    /\ Char(s, j) = "."
    /\ IsToken(s, 1, i - 1)
    /\ IsToken(s, i + 1, j - 1)
    /\ IsToken(s, j + 1, Len(s))

(***************************************************************************)
(* Conversation history.                                                   *)
(*   history value: [t, s, a]   t in undef / null / str / obj / arr        *)
(*   entry:         [t, s, text, author]   t in null / str / obj           *)
(***************************************************************************)
HUndef == [t |-> "undef", s |-> "", a |-> <<>>]
HNull == [t |-> "null", s |-> "", a |-> <<>>]
HStr(s) == [t |-> "str", s |-> s, a |-> <<>>]
HObj == [t |-> "obj", s |-> "", a |-> <<>>]
Arr(a) == [t |-> "arr", s |-> "", a |-> a]

Turn(author, text) == [t |-> "obj", s |-> "", text |-> text, author |-> author]
NullEntry == [t |-> "null", s |-> "", text |-> Undef, author |-> Undef]
\* a one-character string, as the spread of a string yields
CharEntry(c) == [t |-> "str", s |-> c, text |-> Undef, author |-> Undef]

\* ToBoolean of an entry m
EntryTruthy(m) ==
  CASE m.t = "obj" -> TRUE
    [] m.t = "str" -> m.s # ""
    [] OTHER -> FALSE

\* ToBoolean of a history value
HTruthy(h) ==
  CASE h.t = "arr" -> TRUE
    [] h.t = "obj" -> TRUE
    [] h.t = "str" -> h.s # ""
    [] OTHER -> FALSE

\* the outcome of an expression: a value, or a raised exception
Ok(v) == [raised |-> FALSE, value |-> v]
Raise == [raised |-> TRUE, value |-> <<>>]

Message(role, content) == [role |-> role, content |-> content]

\* KeepEntry without the author test: m => m && m.text
KeepEntry_NoAuthor(m) == EntryTruthy(m) /\ Truthy(m.text)

\* m => m && m.text && m.author
KeepEntry(m) == EntryTruthy(m) /\ Truthy(m.text) /\ Truthy(m.author)

\* m => ({ role: m.author === 'user' ? 'user' : 'assistant', content: m.text })
ToMessage(m) == Message(IF m.author = Str("user") THEN "user" ELSE "assistant", m.text)

RECURSIVE FilterMap(_)
FilterMap(a) ==
  IF a = <<>> THEN <<>>
  ELSE (IF KeepEntry(Head(a)) THEN <<ToMessage(Head(a))>> ELSE <<>>) \o FilterMap(Tail(a))

\* history.filter(...).map(...): filter is a method of arrays only
ArrayFilterMap(h) == IF h.t = "arr" THEN Ok(FilterMap(h.a)) ELSE Raise

\* function buildMessagesFromHistory(history = [])
buildMessagesFromHistory(h) ==
  LET history == IF h.t = "undef" THEN Arr(<<>>) ELSE h
  IN IF history.t # "arr" THEN Ok(<<>>) ELSE ArrayFilterMap(history)

(***************************************************************************)
(* Requests, outbound calls, responses.                                    *)
(***************************************************************************)
Revisions == {"server", "part_000"}

IsServerJs(r) == r = "server"

\* req.body || {} : a body that is absent reads as one with no fields
NoBody ==
  [present |-> FALSE, input |-> Undef, history |-> HUndef, honeypot |-> Undef,
   businessName |-> Undef, website |-> Undef, email |-> Undef, phone |-> Undef,
   message |-> Undef]

ChatBody(input, history) == [NoBody EXCEPT !.present = TRUE, !.input = input, !.history = history]

LeadBody(honeypot, businessName, website, email, phone, message) ==
  [NoBody EXCEPT !.present = TRUE, !.honeypot = honeypot, !.businessName = businessName,
                 !.website = website, !.email = email, !.phone = phone, !.message = message]

NoRequest == [route |-> "none", body |-> NoBody]

NoMail == [business |-> "", website |-> "", email |-> "", phone |-> "", message |-> ""]

OpenAICall(model, messages) ==
  [api |-> "openai", model |-> model, messages |-> messages, subject |-> "", text |-> NoMail]

ResendCall(subject, text) ==
  [api |-> "resend", model |-> "", messages |-> <<>>, subject |-> subject, text |-> text]

ChatResponse(status, reply, history) ==
  [status |-> status, reply |-> reply, history |-> history, success |-> FALSE]

LeadResponse(status, success) ==
  [status |-> status, reply |-> "", history |-> HUndef, success |-> success]

(***************************************************************************)
(* POST /chat                                                              *)
(***************************************************************************)
\* the persona strings, abridged to their first words
SystemPrompt(r) ==
  IF IsServerJs(r)
  THEN "You are Earthy AI, a website assistant for trade and service businesses"
  ELSE "You are Earthy AI, the official AI assistant for Earthy AI"

OPENAI_MODEL(r, e) ==
  IF IsServerJs(r) THEN "gpt-4o-mini"
  ELSE IF e.OPENAI_MODEL # "" THEN e.OPENAI_MODEL ELSE "gpt-4.1-nano"

RejectionReply(r) == IF IsServerJs(r) THEN "Please enter a message." ELSE "Invalid request"

ApologyReply == "Sorry - something went wrong. Please try again."

FallbackReply == "Could you clarify that?"

\* const { input, history = [] } = req.body || {}
ChatInput(body) == IF body.present THEN body.input ELSE Undef

ChatHistory(body) ==
  LET h == IF body.present THEN body.history ELSE HUndef
  IN IF h.t = "undef" THEN Arr(<<>>) ELSE h

\* ChatCatch returning the destructured history: { reply: 'Server error', history }
ChatCatch_Destructured(body) == ChatResponse(500, "Server error", ChatHistory(body))

\* catch (err): { reply: 'Server error', history: req.body?.history || [] }
ChatCatch(body) ==
  ChatResponse(500, "Server error",
               IF body.present /\ HTruthy(body.history) THEN body.history ELSE Arr(<<>>))

\* ChatValidate without the trim: if (!input)
ChatValidate_NoTrim(body) ==
  LET input == ChatInput(body)
  IN IF ~Truthy(input) THEN "reject" ELSE IF input.t # "str" THEN "raise" ELSE "pass"

\* !input || !input.trim() : "reject", "pass", or "raise" when trim is no method of input
ChatValidate(body) ==
  LET input == ChatInput(body)
  IN IF ~Truthy(input) THEN "reject"
     ELSE IF input.t # "str" THEN "raise"
     ELSE IF Trim(input.s) = "" THEN "reject"
     ELSE "pass"

\* messages after unshift(system) and push(user)
ChatMessages(r, body) ==
  LET built == buildMessagesFromHistory(ChatHistory(body))
  IN IF built.raised THEN Raise
     ELSE Ok(<<Message("system", Str(SystemPrompt(r)))>> \o built.value
             \o <<Message("user", ChatInput(body))>>)

\* the parsed completion payload: data?.choices?.[0]?.message?.content
FirstContent(data) == IF data.shape = "message" THEN data.content ELSE Undef

\* the reply extracted from the payload, or a raised TypeError
ExtractReply(r, data) ==
  LET c == FirstContent(data)
  IN IF IsServerJs(r)
     THEN Ok(IF Truthy(c) /\ c.t = "str" THEN Str(Trim(c.s)) ELSE Null)
     ELSE IF c.t \in {"undef", "null"} THEN Ok(Str(FallbackReply))
     ELSE IF c.t # "str" THEN Raise
     ELSE Ok(IF Trim(c.s) # "" THEN Str(Trim(c.s)) ELSE Str(FallbackReply))

\* Spread that loses the caller's entries: history: [{ author: 'ai', text: reply }]
Spread_Dropped(h) == IF h.t \in {"arr", "str"} THEN Ok(<<>>) ELSE Raise

\* [...history] : iterates an array or a string, raises on null and plain objects
Spread(h) ==
  CASE h.t = "arr" -> Ok(h.a)
    [] h.t = "str" -> Ok([i \in 1..Len(h.s) |-> CharEntry(Char(h.s, i))])
    [] OTHER -> Raise

\* the response once the payload is parsed
ChatReplyResponse(r, body, data) ==
  LET e == ExtractReply(r, data)
      history == ChatHistory(body)
      spread == Spread(history)
  IN IF e.raised THEN ChatCatch(body)
     ELSE IF IsServerJs(r) /\ ~Truthy(e.value) THEN ChatResponse(500, ApologyReply, history)
     ELSE IF spread.raised THEN ChatCatch(body)
     ELSE ChatResponse(200, e.value.s,
                       Arr(spread.value \o <<Turn(Str("ai"), e.value)>>))

\* the console.error lines written on that path
ChatReplyLog(r, body, data) ==
  LET e == ExtractReply(r, data)
  IN IF e.raised THEN <<"Chat error">>
     ELSE IF IsServerJs(r) /\ ~Truthy(e.value) THEN <<"OpenAI returned no usable reply">>
     ELSE IF Spread(ChatHistory(body)).raised THEN <<"Chat error">>
     ELSE <<>>

(***************************************************************************)
(* POST /lead                                                              *)
(***************************************************************************)
\* the placeholder dash (U+2014 in the source)
Dash == "-"

Field(body, v) == IF body.present THEN v ELSE Undef

\* the required-field checks: TRUE when the handler goes on past them
LeadValid(r, body) ==
  LET businessName == Field(body, body.businessName)
      email == Field(body, body.email)
  IN IF IsServerJs(r)
     THEN Truthy(businessName) /\ Truthy(email)
     ELSE /\ Truthy(businessName) /\ Trim(JsString(businessName)) # ""
          /\ Truthy(email) /\ Trim(JsString(email)) # ""
          /\ simpleEmailRegex(Trim(JsString(email)))

\* let site = ...; if (site && !/^https?:\/\//i.test(site)) site = 'https://' + site
NormalizeSite(r, website) ==
  LET site == IF IsServerJs(r)
              THEN (IF Truthy(website) THEN Trim(JsString(website)) ELSE "")
              ELSE (IF Truthy(website) /\ Trim(JsString(website)) # ""
                    THEN Trim(JsString(website)) ELSE "")
  IN IF site # "" /\ ~HasHttpPrefix(site) THEN "https://" \o site ELSE site

\* x || '-'
OrDash(s) == IF s # "" THEN s ELSE Dash

\* phone / message of part_000: trimmed, empty when absent
TrimmedOrEmpty(v) == IF Truthy(v) /\ Trim(JsString(v)) # "" THEN Trim(JsString(v)) ELSE ""

\* the fields written into the email body template
emailBody(r, body) ==
  LET site == NormalizeSite(r, Field(body, body.website))
  IN IF IsServerJs(r)
     THEN [business |-> JsString(body.businessName),
           website |-> OrDash(site),
           email |-> JsString(body.email),
           phone |-> IF Truthy(body.phone) THEN JsString(body.phone) ELSE Dash,
           message |-> IF Truthy(body.message) THEN JsString(body.message) ELSE Dash]
     ELSE [business |-> Trim(JsString(body.businessName)),
           website |-> OrDash(site),
           email |-> Trim(JsString(body.email)),
           phone |-> OrDash(TrimmedOrEmpty(body.phone)),
           message |-> OrDash(TrimmedOrEmpty(body.message))]

LeadSubject(r, body) ==
  "New Earthy enquiry - " \o
    (IF IsServerJs(r) THEN JsString(body.businessName) ELSE Trim(JsString(body.businessName)))

\* the credential check made by every revision
KeyGuardBlocks_AnyRevision(r, e) == ~e.RESEND_API_KEY

\* if (!RESEND_API_KEY) return 500 : only part_000 checks the credential
KeyGuardBlocks(r, e) == ~IsServerJs(r) /\ ~e.RESEND_API_KEY

\* LeadDecision with the honeypot test after the field checks
LeadDecision_ValidateFirst(r, e, body) ==
  IF ~LeadValid(r, body) THEN "invalid"
  ELSE IF Truthy(Field(body, body.honeypot)) THEN "honeypot"
  ELSE IF ~e.RESEND_API_KEY /\ ~IsServerJs(r) THEN "nokey"
  ELSE "send"

\* what the handler does before its first await: "honeypot", "invalid", "nokey" or "send"
LeadDecision(r, e, body) ==
  IF Truthy(Field(body, body.honeypot)) THEN "honeypot"
  ELSE IF ~LeadValid(r, body) THEN "invalid"
  ELSE IF KeyGuardBlocks(r, e) THEN "nokey"
  ELSE "send"

\* catch (err): res.status(500).json({ success: false })
LeadCatch == LeadResponse(500, FALSE)

(***************************************************************************)
(* Inputs.                                                                 *)
(***************************************************************************)
Inputs == {Undef, Str(""), Str(" \t"), Str(" hi "), Num("5")}

Entries ==
  {NullEntry,
   Turn(Str("user"), Str("q")), Turn(Str("ai"), Str("r")), Turn(Str("system"), Num("7")),
   Turn(Undef, Str("q")), Turn(Str(""), Str("q")),
   Turn(Str("user"), Undef), Turn(Str("user"), Str(""))}

BoundedSeq(S, n) == UNION {[1..k -> S] : k \in 0..n}

Histories ==
  {HUndef, HNull, HObj, HStr(""), HStr("ab")} \cup {Arr(a) : a \in BoundedSeq(Entries, MaxHist)}

ChatBodies == {NoBody} \cup {ChatBody(i, h) : i \in Inputs, h \in Histories}

\* parsed completion payloads: null, {}, {choices: []}, {choices: [{}]},
\* {choices: [{message: {content}}]}
Contents == {Undef, Null, Str(""), Str("  "), Str("ok"), Str(" ok\n"), Num("0"), Num("5"), Obj}

Payloads ==
  {[shape |-> sh, content |-> Undef] : sh \in {"null", "nochoices", "empty", "nomessage"}}
    \cup {[shape |-> "message", content |-> c] : c \in Contents}

Honeypots == {Undef, Str(""), Str("x")}

BusinessNames == {Undef, Str(""), Str("  "), Str("Acme"), Str(" Acme ")}

Emails ==
  {Undef, Str(" "), Str("a@b.co"), Str(" a@b.co "), Str("not-an-email"),
   Str("a@b"), Str("a b@c.d"), Str("@b.co")}

Websites ==
  {Undef, Str(""), Str("  "), Str("ex.com"), Str(" ex.com "), Str("http://ex.com"),
   Str("https://ex.com"), Str("HTTPS://ex.com"), Str(" HtTp://ex.com"), Str("http:/ex.com"),
   Str("ftp://ex.com"), Str("https://"), Num("5")}

\* every combination of the validated fields, and every website with the others fixed
LeadBodies ==
  {NoBody}
    \cup {LeadBody(h, b, Undef, e, Undef, Undef) :
            h \in Honeypots, b \in BusinessNames, e \in Emails}
    \cup {LeadBody(h, Str("Acme"), w, e, Str(" 1 "), Str("m")) :
            h \in {Undef, Str("x")}, w \in Websites, e \in {Str("a@b.co"), Str("not-an-email")}}

Environments == [RESEND_API_KEY : BOOLEAN, OPENAI_MODEL : {"", "gpt-x"}]

NoPayload == [shape |-> "none", content |-> Undef]

\* fetch: none / pending / ok / notok / rejected;  body: none / parsed / read / rejected
NoUpstream == [fetch |-> "none", body |-> "none", data |-> NoPayload]

(***************************************************************************)
(* The state machine.                                                      *)
(***************************************************************************)
Init ==
  /\ rev \in Revisions
  /\ env \in Environments
  /\ pc = "idle"
  /\ req = NoRequest
  /\ calls = <<>>
  /\ resps = <<>>
  /\ upstream = NoUpstream
  /\ log = <<>>

\* res.status(..).json(..) as the handler's last step
Respond(r) == resps' = Append(resps, r) /\ pc' = "done"

\* console.error(..)
Log(line) == log' = Append(log, line)

\* the catch block of /chat
ChatCaught(body) == Respond(ChatCatch(body)) /\ Log("Chat error")

\* the catch block of /lead
LeadCaught == Respond(LeadCatch) /\ Log("Lead error")

\* app.post('/chat'): from the request to the fetch, or to an early response
ChatReceive(body) ==
  /\ pc = "idle"
  /\ req' = [route |-> "chat", body |-> body]
  /\ LET v == ChatValidate(body)
         m == ChatMessages(rev, body)
     IN CASE v = "reject" ->
               /\ Respond(ChatResponse(400, RejectionReply(rev), ChatHistory(body)))
               /\ UNCHANGED <<calls, upstream, log>>
          [] v = "raise" \/ m.raised ->
               /\ ChatCaught(body)
               /\ UNCHANGED <<calls, upstream>>
          [] OTHER ->
               /\ calls' = Append(calls, OpenAICall(OPENAI_MODEL(rev, env), m.value))
               /\ upstream' = [upstream EXCEPT !.fetch = "pending"]
               /\ pc' = "chat_fetch"
               /\ UNCHANGED <<resps, log>>
  /\ UNCHANGED <<rev, env>>

\* await fetch(...) resolves; the handler goes on to await openaiResp.json()
ChatFetchResolve ==
  /\ pc = "chat_fetch"
  /\ pc' = "chat_json"
  /\ upstream' = [upstream EXCEPT !.fetch = "ok"]
  /\ UNCHANGED <<rev, env, req, calls, resps, log>>

\* ChatFetchReject that tries the call again
ChatFetchReject_Retry ==
  /\ pc = "chat_fetch"
  /\ Len(calls) < 3
  /\ calls' = Append(calls, calls[1])
  /\ UNCHANGED <<rev, env, pc, req, resps, upstream, log>>

\* await fetch(...) rejects: network failure
ChatFetchReject ==
  /\ pc = "chat_fetch"
  /\ upstream' = [upstream EXCEPT !.fetch = "rejected"]
  /\ ChatCaught(req.body)
  /\ UNCHANGED <<rev, env, req, calls>>

\* await openaiResp.json() resolves with the parsed payload
ChatJsonResolve(data) ==
  /\ pc = "chat_json"
  /\ upstream' = [upstream EXCEPT !.body = "parsed", !.data = data]
  /\ LET r == ChatReplyResponse(rev, req.body, data)
     IN /\ Respond(r)
        /\ log' = log \o ChatReplyLog(rev, req.body, data)
  /\ UNCHANGED <<rev, env, req, calls>>

\* await openaiResp.json() rejects: malformed JSON
ChatJsonReject ==
  /\ pc = "chat_json"
  /\ upstream' = [upstream EXCEPT !.body = "rejected"]
  /\ ChatCaught(req.body)
  /\ UNCHANGED <<rev, env, req, calls>>

\* app.post('/lead'): from the request to the fetch, or to an early response
LeadReceive(body) ==
  /\ pc = "idle"
  /\ req' = [route |-> "lead", body |-> body]
  /\ LET d == LeadDecision(rev, env, body)
     IN CASE d = "honeypot" ->
               Respond(LeadResponse(200, TRUE)) /\ UNCHANGED <<calls, upstream, log>>
          [] d = "invalid" ->
               Respond(LeadResponse(400, FALSE)) /\ UNCHANGED <<calls, upstream, log>>
          [] d = "nokey" ->
               /\ Respond(LeadResponse(500, FALSE))
               /\ Log("RESEND_API_KEY not configured")
               /\ UNCHANGED <<calls, upstream>>
          [] OTHER ->
               /\ calls' = Append(calls, ResendCall(LeadSubject(rev, body), emailBody(rev, body)))
               /\ upstream' = [upstream EXCEPT !.fetch = "pending"]
               /\ pc' = "lead_fetch"
               /\ UNCHANGED <<resps, log>>
  /\ UNCHANGED <<rev, env>>

\* await fetch(...) resolves with resendResp.ok
LeadFetchResolve(ok) ==
  /\ pc = "lead_fetch"
  /\ upstream' = [upstream EXCEPT !.fetch = IF ok THEN "ok" ELSE "notok"]
  /\ IF ok
     THEN Respond(LeadResponse(200, TRUE))
     ELSE pc' = "lead_text" /\ UNCHANGED resps
  /\ UNCHANGED <<rev, env, req, calls, log>>

\* await fetch(...) rejects
LeadFetchReject ==
  /\ pc = "lead_fetch"
  /\ upstream' = [upstream EXCEPT !.fetch = "rejected"]
  /\ LeadCaught
  /\ UNCHANGED <<rev, env, req, calls>>

\* await resendResp.text() resolves: the error is logged
LeadTextResolve ==
  /\ pc = "lead_text"
  /\ upstream' = [upstream EXCEPT !.body = "read"]
  /\ Respond(LeadResponse(500, FALSE))
  /\ Log("Resend error")
  /\ UNCHANGED <<rev, env, req, calls>>

\* await resendResp.text() rejects: the outer catch (server.js), or .catch(() =>
\* 'No response body') and the same log line and response as above (part_000)
LeadTextReject ==
  /\ pc = "lead_text"
  /\ upstream' = [upstream EXCEPT !.body = "rejected"]
  /\ IF IsServerJs(rev)
     THEN LeadCaught
     ELSE Respond(LeadResponse(500, FALSE)) /\ Log("Resend error")
  /\ UNCHANGED <<rev, env, req, calls>>

\* the request is over; the process serves the next one
Complete ==
  /\ pc = "done"
  /\ pc' = "idle"
  /\ req' = NoRequest
  /\ calls' = <<>>
  /\ resps' = <<>>
  /\ upstream' = NoUpstream
  /\ log' = <<>>
  /\ UNCHANGED <<rev, env>>

Next ==
  \/ \E body \in ChatBodies : ChatReceive(body)
  \/ ChatFetchResolve
  \/ ChatFetchReject
  \/ \E data \in Payloads : ChatJsonResolve(data)
  \/ ChatJsonReject
  \/ \E body \in LeadBodies : LeadReceive(body)
  \/ \E ok \in BOOLEAN : LeadFetchResolve(ok)
  \/ LeadFetchReject
  \/ LeadTextResolve
  \/ LeadTextReject
  \/ Complete

Spec == Init /\ [][Next]_vars

TypeOK ==
  /\ rev \in Revisions
  /\ pc \in {"idle", "chat_fetch", "chat_json", "lead_fetch", "lead_text", "done"}
  /\ Len(calls) <= 1
  /\ Len(resps) <= 1

(***************************************************************************)
(* Properties.                                                             *)
(***************************************************************************)
Done == pc = "done"

IsChat == req.route = "chat"

IsLead == req.route = "lead"

\* the history the caller supplied, the empty sequence when none was
SuppliedHistory ==
  IF req.body.present /\ req.body.history.t # "undef" THEN req.body.history ELSE Arr(<<>>)

\* input is absent, empty or only white space
BlankInput ==
  LET input == req.body.input
  IN \/ ~req.body.present
     \/ input.t = "undef"
     \/ input.t = "str" /\ \A i \in 1..Len(input.s) : Char(input.s, i) \in WhiteSpace

\* C1: a /chat request whose input is absent, empty or only white space is answered,
\* whatever its history, with status 400, the fixed rejection reply and the supplied
\* history (the empty sequence when none was supplied).
C1_BlankInputRejected ==
  (IsChat /\ BlankInput) =>
    /\ Done
    /\ Len(resps) = 1
    /\ resps[1].status = 400
    /\ resps[1].reply = RejectionReply(rev)
    /\ resps[1].history = SuppliedHistory

C1_Witness ==
  /\ Done /\ IsChat
  /\ req.body.input = Str(" \t")
  /\ req.body.history.t = "arr" /\ Len(req.body.history.a) = 2
  /\ resps[1].status = 400

\* the entries of the supplied history: the elements of an array, the characters of a
\* string, none when it is absent
SuppliedEntries ==
  LET h == SuppliedHistory
  IN IF h.t = "str" THEN [i \in 1..Len(h.s) |-> CharEntry(Char(h.s, i))] ELSE h.a

\* C2: every 200 response of /chat returns a history one longer than the supplied one,
\* whose first entries are the supplied entries, in order and unmodified, and whose last
\* entry is { author: "ai", text: reply } with the reply of the same response.
C2_SuccessAppendsOneAiTurn ==
  (Done /\ IsChat /\ resps[1].status = 200) =>
    LET out == resps[1].history
        n == Len(out.a)
    IN /\ out.t = "arr"
       /\ SuppliedHistory.t \in {"arr", "str"}
       /\ n = Len(SuppliedEntries) + 1
       /\ \A i \in 1..(n - 1) : out.a[i] = SuppliedEntries[i]
       /\ out.a[n] = Turn(Str("ai"), Str(resps[1].reply))

C2_Witness ==
  /\ Done /\ IsChat
  /\ resps[1].status = 200
  /\ req.body.history.t = "arr" /\ Len(req.body.history.a) = 2
  /\ Len(resps[1].history.a) = 3

\* an entry with a non-empty text and an author
HasTextAndAuthor(m) ==
  /\ m.t = "obj"
  /\ m.text.t \notin {"undef", "null"} /\ m.text.s # ""
  /\ m.author.t \notin {"undef", "null"} /\ m.author.s # ""

KeptIndices(a) == {i \in 1..Len(a) : HasTextAndAuthor(a[i])}

\* the j-th kept index, in the order of the array
NthKept(a, j) == CHOOSE i \in KeptIndices(a) : Cardinality({k \in KeptIndices(a) : k < i}) = j - 1

ExpectedMessages(a) ==
  [j \in 1..Cardinality(KeptIndices(a)) |->
     [role |-> IF a[NthKept(a, j)].author = Str("user") THEN "user" ELSE "assistant",
      content |-> a[NthKept(a, j)].text]]

\* C3: buildMessagesFromHistory never raises; it returns the empty sequence for an
\* input that is not an array, and otherwise the entries with a non-empty text and an
\* author (an absent, null or empty author is none), in their order, as { role, content }
\* with role "user" for author "user" and "assistant" for any other author. The handler
\* sends what it returned.
C3_HistoryNormalized ==
  IsChat =>
    LET h == req.body.history
        out == buildMessagesFromHistory(h)
    IN /\ ~out.raised
       /\ h.t \notin {"arr", "undef"} => out.value = <<>>
       /\ h.t = "arr" => out.value = ExpectedMessages(h.a)
       /\ calls # <<>> =>
            SubSeq(calls[1].messages, 2, Len(calls[1].messages) - 1) = out.value

C3_Witness ==
  /\ IsChat /\ calls # <<>>
  /\ req.body.history = Arr(<<Turn(Undef, Str("q")), Turn(Str("ai"), Str("r"))>>)
  /\ Len(calls[1].messages) = 3
  /\ calls[1].messages[2] = Message("assistant", Str("r"))

\* the payload has no first-choice message content, or one that is not a string
NoStringContent ==
  /\ upstream.body = "parsed"
  /\ upstream.data.shape # "message" \/ upstream.data.content.t # "str"

\* C4: when the completion payload has no first-choice message content, or one that is
\* not a string, /chat answers 500 with the fixed apology and the caller's history, no
\* entry appended; never a placeholder reply, never a success.
C4_NoSilentFallback ==
  (Done /\ IsChat /\ NoStringContent) =>
    /\ resps[1].status = 500
    /\ resps[1].reply = ApologyReply
    /\ resps[1].history = SuppliedHistory

NonEmpty(v) == v.t \notin {"undef", "null"} /\ v.s # ""

\* C5: a /lead request with a non-empty honeypot is answered 200 { success: true } with
\* no outbound call, whatever its other fields: the honeypot test comes first.
C5_HoneypotShortCircuits ==
  (IsLead /\ NonEmpty(req.body.honeypot)) =>
    /\ Done
    /\ calls = <<>>
    /\ resps = <<LeadResponse(200, TRUE)>>

C5_Witness ==
  /\ Done /\ IsLead
  /\ req.body.honeypot = Str("x")
  /\ req.body.businessName = Undef
  /\ req.body.email = Str("not-an-email")
  /\ resps[1].status = 200

\* a field that is absent, or empty once trimmed
BlankField(v) == v.t \in {"undef", "null"} \/ (v.t = "str" /\ Trim(v.s) = "")

\* C6: a /lead request with an empty honeypot whose businessName is absent or empty
\* after trimming, or whose email is absent, empty after trimming or not of the shape
\* token@token.token, is answered 400 { success: false } with no outbound call.
C6_InvalidLeadRejected ==
  (/\ IsLead
   /\ ~NonEmpty(req.body.honeypot)
   /\ \/ BlankField(req.body.businessName)
      \/ BlankField(req.body.email)
      \/ ~simpleEmailRegex(Trim(JsString(req.body.email)))) =>
    /\ Done
    /\ calls = <<>>
    /\ resps = <<LeadResponse(400, FALSE)>>

\* the /lead request passed the field checks of the revision, with an empty honeypot
ValidatedLead == IsLead /\ ~NonEmpty(req.body.honeypot) /\ LeadValid(rev, req.body)

\* the response that follows the outcome of the email call
FollowsOutcome ==
  Done => resps = <<IF upstream.fetch = "ok" THEN LeadResponse(200, TRUE)
                    ELSE LeadResponse(500, FALSE)>>

\* C7 as stated: every validated /lead request makes exactly one call to the email API
\* and is answered 200 { success: true } if the call reports success, 500
\* { success: false } if not; none is answered without the call.
C7_Original ==
  ValidatedLead => Len(calls) = 1 /\ calls[1].api = "resend" /\ FollowsOutcome

\* C7 amended: the same, except that part_000 started without RESEND_API_KEY answers a
\* validated request 500 { success: false } and makes no call.
C7_ValidatedLeadSendsOnce ==
  ValidatedLead =>
    IF rev = "part_000" /\ ~env.RESEND_API_KEY
    THEN Done /\ calls = <<>> /\ resps = <<LeadResponse(500, FALSE)>>
    ELSE Len(calls) = 1 /\ calls[1].api = "resend" /\ FollowsOutcome

C7_Witness ==
  /\ Done /\ ValidatedLead
  /\ Len(calls) = 1
  /\ upstream.fetch = "notok"
  /\ resps = <<LeadResponse(500, FALSE)>>

\* C8 as stated: on every path a /chat request makes exactly one outbound call.
C8_Original == (Done /\ IsChat) => Len(calls) = 1

\* input is a string with a character that is not white space
PassingInput ==
  /\ req.body.present
  /\ req.body.input.t = "str"
  /\ \E i \in 1..Len(req.body.input.s) : Char(req.body.input.s, i) \notin WhiteSpace

\* C8 amended: a /chat request makes exactly one call to the completion API when its
\* input is a string with a character that is not white space, and none otherwise (a
\* 400, or an input that is not a string); no call is retried: on every path a /chat or
\* /lead request makes at most one outbound call.
C8_AtMostOneCallNoRetry ==
  /\ Len(calls) <= 1
  /\ IsChat =>
       /\ Len(calls) = IF PassingInput THEN 1 ELSE 0
       /\ \A i \in 1..Len(calls) : calls[i].api = "openai"
  /\ IsLead => \A i \in 1..Len(calls) : calls[i].api = "resend"

C8_Witness ==
  /\ Done /\ IsChat
  /\ upstream.fetch = "rejected"
  /\ Len(calls) = 1
  /\ resps[1].status = 500

Logged(line) == \E i \in 1..Len(log) : log[i] = line

\* the outbound call was rejected, its body could not be read, or the catch block ran
Failure ==
  \/ upstream.fetch = "rejected"
  \/ upstream.body = "rejected"
  \/ Logged("Chat error")
  \/ Logged("Lead error")

\* C9 as stated: every failure ends in exactly one response, 500, with for /chat the
\* generic error reply and the request's history (empty if absent), for /lead
\* { success: false }.
C9_Original ==
  Failure =>
    /\ Done
    /\ Len(resps) = 1
    /\ resps[1].status = 500
    /\ IsChat => resps[1].reply = "Server error" /\ resps[1].history = SuppliedHistory
    /\ IsLead => resps[1] = LeadResponse(500, FALSE)

\* C9 amended: the same, with the history of the /chat response being the request's
\* history when that is truthy (any array, any object, a non-empty string) and the empty
\* sequence when it is absent, null or another falsy value.
C9_FailureAnswered500 ==
  Failure =>
    /\ Done
    /\ Len(resps) = 1
    /\ resps[1].status = 500
    /\ IsChat =>
         /\ resps[1].reply = "Server error"
         /\ resps[1].history =
              IF \/ SuppliedHistory.t \in {"arr", "obj"}
                 \/ SuppliedHistory.t = "str" /\ SuppliedHistory.s # ""
              THEN SuppliedHistory
              ELSE Arr(<<>>)
    /\ IsLead => resps[1] = LeadResponse(500, FALSE)

C9_Witness ==
  /\ Done /\ IsChat
  /\ upstream.body = "rejected"
  /\ req.body.history.t = "arr" /\ Len(req.body.history.a) = 2
  /\ resps[1].status = 500
  /\ resps[1].history = req.body.history

\* the website as the claim describes it: trimmed, "https://" put before it when it is
\* not empty and does not start with http:// or https:// in any case
ExpectedSite(w) ==
  LET t == IF w.t \in {"undef", "null"} THEN "" ELSE Trim(JsString(w))
      prefixed == \/ Len(t) >= 7 /\ ToLower(SubSeq(t, 1, 7)) = "http://"
                  \/ Len(t) >= 8 /\ ToLower(SubSeq(t, 1, 8)) = "https://"
  IN IF t = "" \/ prefixed THEN t ELSE "https://" \o t

\* C10: the website written into the email body is the trimmed field, with "https://"
\* before it exactly when it is not empty and has no http:// or https:// prefix (in any
\* case); an absent or empty one is the placeholder dash; normalizing the normalized
\* value again changes nothing.
C10_WebsiteNormalized ==
  (IsLead /\ calls # <<>>) =>
    LET w == req.body.website
        out == NormalizeSite(rev, w)
    IN /\ out = ExpectedSite(w)
       /\ calls[1].text.website = (IF ExpectedSite(w) = "" THEN Dash ELSE ExpectedSite(w))
       /\ NormalizeSite(rev, Str(out)) = out

C10_Witness ==
  /\ IsLead /\ calls # <<>>
  /\ req.body.website = Str("HTTPS://ex.com")
  /\ calls[1].text.website = "HTTPS://ex.com"

\* the call to the completion API made for the current /chat request
ReachedCompletionApi == IsChat /\ calls # <<>>

\* the message list: the persona as the only system message, first; the normalized
\* history; the raw input as the user message, last
MessageListShape ==
  ReachedCompletionApi =>
    LET msgs == calls[1].messages
        n == Len(msgs)
    IN /\ n >= 2
       /\ msgs[1] = Message("system", Str(SystemPrompt(rev)))
       /\ msgs[n] = Message("user", req.body.input)
       /\ n - 2 = Cardinality(KeptIndices(SuppliedHistory.a))
       /\ \A j \in 1..(n - 2) : msgs[j + 1] = ExpectedMessages(SuppliedHistory.a)[j]
       /\ \A i \in 2..n : msgs[i].role \in {"user", "assistant"}

\* the model named in the request is the constant the revision's source writes
ModelPinned ==
  ReachedCompletionApi =>
    calls[1].model = (IF rev = "server" THEN "gpt-4o-mini" ELSE "gpt-4.1-nano")

\* C11: a /chat request that reaches the completion API sends the fixed persona as its
\* one system message, first, then the normalized history in caller order, then the raw,
\* untrimmed input as its one user message, last; no history entry yields role "system";
\* the model named is a fixed constant, whatever the caller's input and the environment.
C11_MessageListAndPinnedModel == MessageListShape /\ ModelPinned

====
